---------------------------- MODULE Spec2Model ----------------------------
(***************************************************************************)
(* Model of the flight-delay feature pipeline (lucastack/deploy_example):  *)
(* the date/time feature functions and the concurrent-flights scan of      *)
(* src/data/utils.py, the training path of src/data/dataset.py and the     *)
(* inference session of src/inference/__init__.py.                         *)
(*                                                                         *)
(* A timestamp string "YYYY-MM-DD HH:MM:SS" is modelled by the tuple of    *)
(* its six numeric fields <<Y, M, D, h, m, s>>; datetime.strptime turns it *)
(* into a datetime record.  Python's None is the string "None".            *)
(***************************************************************************)
EXTENDS Integers, Sequences, FiniteSets, TLC

VARIABLES
    pc,          \* control location of the program being run
    data,        \* the DataFrame: a sequence of rows (records), in row order
    time_window, \* aggregate_concurrent_flights_number's time_window (hours)
    scan,        \* locals of the concurrency scan (utils.py lines 168-184)
    arg,         \* argument of the feature function being applied
    ret,         \* its return value
    threshold,   \* load_data's threshold (minutes)
    built,       \* what build_features_and_label returned
    spc,         \* control location of the server
    session,     \* the server's InferenceSession
    data_in,     \* the request being served, as received
    frame,       \* the DataFrame made of it, which preprocess changes in place
    output,      \* what preprocess returned
    responses    \* the (request, feature row) pairs served so far

callVars == <<arg, ret>>
trainVars == <<threshold, built>>
serveVars == <<spc, session, data_in, frame, output, responses>>
vars == <<pc, data, time_window, scan, callVars, trainVars, serveVars>>

None == "None"

(***************************************************************************)
(* Bounds of the model.                                                    *)
(***************************************************************************)
MaxBatch == 3      \* largest batch the scan is run on
MaxTick == 4       \* scheduled times lie on a half-hour grid 08:00 + 0..MaxTick
MaxWindow == 2     \* largest time_window (hours)
MaxRows == 5       \* largest CSV of a training run

(***************************************************************************)
(* datetime                                                                *)
(***************************************************************************)
IsLeap(y) == (y % 4 = 0) /\ ((y % 100 # 0) \/ (y % 400 = 0))

DaysInMonth(y, m) ==
    IF m = 2 THEN (IF IsLeap(y) THEN 29 ELSE 28)
    ELSE IF m \in {4, 6, 9, 11} THEN 30 ELSE 31

RECURSIVE DaysBeforeMonth(_, _)
DaysBeforeMonth(y, m) ==
    IF m = 1 THEN 0 ELSE DaysBeforeMonth(y, m - 1) + DaysInMonth(y, m - 1)

DaysBeforeYear(y) ==
    (y - 1) * 365 + ((y - 1) \div 4) - ((y - 1) \div 100) + ((y - 1) \div 400)

\* datetime.toordinal(): 1 for 0001-01-01
ToOrdinal(d) == DaysBeforeYear(d.year) + DaysBeforeMonth(d.year, d.month) + d.day

\* datetime.strptime(string, "%Y-%m-%d %H:%M:%S"); ValueError on a malformed stamp
WellFormed(s) ==
    /\ s[1] \in 1..9999 /\ s[2] \in 1..12 /\ s[3] \in 1..DaysInMonth(s[1], s[2])
    /\ s[4] \in 0..23 /\ s[5] \in 0..59 /\ s[6] \in 0..59

Strptime(s) ==
    IF WellFormed(s)
    THEN [year |-> s[1], month |-> s[2], day |-> s[3],
          hour |-> s[4], minute |-> s[5], second |-> s[6]]
    ELSE "ValueError"

\* (a - b).total_seconds() for two datetimes
TotalSeconds(a, b) ==
    (ToOrdinal(a) - ToOrdinal(b)) * 86400
        + (a.hour - b.hour) * 3600 + (a.minute - b.minute) * 60
        + (a.second - b.second)

Abs(x) == IF x < 0 THEN -x ELSE x

\* datetime comparison a <= b: field by field, most significant first
DatetimeKey(d) == <<d.year, d.month, d.day, d.hour, d.minute, d.second>>

RECURSIVE LexLess(_, _)
LexLess(u, v) ==
    IF u = <<>> THEN FALSE
    ELSE IF Head(u) # Head(v) THEN Head(u) < Head(v)
    ELSE LexLess(Tail(u), Tail(v))

DatetimeLt(a, b) == LexLess(DatetimeKey(a), DatetimeKey(b))
DatetimeLe(a, b) == a = b \/ DatetimeLt(a, b)


(***************************************************************************)
(* aggregate_concurrent_flights_number (utils.py 136-186)                  *)
(***************************************************************************)
\* the window test of line 175, with "<" for "<="
WithinWindowStrict(a, b, w) == Abs(TotalSeconds(a, b)) < w * 3600

\* the window test of line 175
WithinWindow(a, b, w) == Abs(TotalSeconds(a, b)) <= w * 3600

\* line 166: the "Fecha-I" column parsed to datetimes
ParseColumn(rows) ==
    [k \in 1..Len(rows) |-> [rows[k] EXCEPT !.Fecha_I = Strptime(rows[k].Fecha_I)]]

\* the positions of `left` whose timestamp no other position of `left` precedes
Earliest(rows, left) ==
    { a \in left : \A b \in left : DatetimeLe(rows[a].Fecha_I, rows[b].Fecha_I) }

\* the orders of the positions `left` that are sorted by timestamp
RECURSIVE SortedOrders(_, _)
SortedOrders(rows, left) ==
    IF left = {} THEN { <<>> }
    ELSE UNION { { <<a>> \o rest : rest \in SortedOrders(rows, left \ {a}) } :
                    a \in Earliest(rows, left) }

\* line 167: every row order sort_values may leave (the default quicksort is
\* not stable, so rows with equal timestamps may come out in any order)
SortValues(rows) ==
    { [k \in 1..Len(rows) |-> rows[order[k]]] :
        order \in SortedOrders(rows, 1..Len(rows)) }

\* lines 168-170: the locals before the loop; i is the index the outer for
\* loop hands out next, j the one of the inner loop (both 0-based, as in Python)
ScanStart(rows, w) ==
    [dates_list |-> [k \in 1..Len(rows) |-> rows[k].Fecha_I],
     time_window |-> w,
     concurrency_values |-> <<>>,
     starting_index |-> 0,
     i |-> 0, j |-> 0, concurrent_flights |-> 0,
     at |-> "for_i"]

ScanLen(st) == Len(st.dates_list)
DateAt(st, k) == st.dates_list[k + 1]

\* line 183-184 followed by the inner loop's next j
EndOfBody(st) ==
    [st EXCEPT
        !.concurrency_values =
            IF st.j = ScanLen(st) - 1
            THEN Append(st.concurrency_values, st.concurrent_flights)
            ELSE st.concurrency_values,
        !.j = st.j + 1]

\* lines 171-173: the outer loop hands out i and the inner range starts
StepForI(st) ==
    [st EXCEPT !.concurrent_flights = 0, !.j = st.starting_index, !.at = "for_j"]

\* line 171 with the range exhausted: on to line 185
StepForIExit(st) == [st EXCEPT !.at = "assign"]

\* lines 174-176: j is within the window of i
StepInWindow(st) ==
    EndOfBody([st EXCEPT !.concurrent_flights = st.concurrent_flights + 1])

\* lines 178-180 without the break of line 180
StepForwardOverflowNoBreak(st) ==
    EndOfBody([st EXCEPT
        !.concurrency_values = Append(st.concurrency_values, st.concurrent_flights)])

\* lines 178-180: j is beyond the window and after i
StepForwardOverflow(st) ==
    [st EXCEPT
        !.concurrency_values = Append(st.concurrency_values, st.concurrent_flights),
        !.i = st.i + 1, !.at = "for_i"]

\* lines 181-182 with the lower index moved up to i itself
StepAdvanceLoToI(st) == EndOfBody([st EXCEPT !.starting_index = st.i])

\* lines 181-182: j is beyond the window and not after i
StepAdvanceLo(st) == EndOfBody([st EXCEPT !.starting_index = st.j])

\* line 173 with the range exhausted: the outer loop goes on
StepForJExit(st) == [st EXCEPT !.i = st.i + 1, !.at = "for_i"]

InBody(st) == st.at = "for_j" /\ st.j < ScanLen(st)
CanForI(st) == st.at = "for_i" /\ st.i < ScanLen(st)
CanForIExit(st) == st.at = "for_i" /\ st.i >= ScanLen(st)
CanInWindow(st) ==
    InBody(st) /\ WithinWindow(DateAt(st, st.i), DateAt(st, st.j), st.time_window)
CanForwardOverflow(st) ==
    /\ InBody(st)
    /\ ~WithinWindow(DateAt(st, st.i), DateAt(st, st.j), st.time_window)
    /\ st.i < st.j
CanAdvanceLo(st) ==
    /\ InBody(st)
    /\ ~WithinWindow(DateAt(st, st.i), DateAt(st, st.j), st.time_window)
    /\ ~(st.i < st.j)
CanForJExit(st) == st.at = "for_j" /\ st.j >= ScanLen(st)

\* one step of the loops of lines 171-184
ScanStep(st) ==
    CASE CanForI(st) -> StepForI(st)
      [] CanForIExit(st) -> StepForIExit(st)
      [] CanInWindow(st) -> StepInWindow(st)
      [] CanForwardOverflow(st) -> StepForwardOverflow(st)
      [] CanAdvanceLo(st) -> StepAdvanceLo(st)
      [] CanForJExit(st) -> StepForJExit(st)
      [] OTHER -> st

\* the loops run to line 185
RECURSIVE RunScan(_)
RunScan(st) == IF st.at = "assign" THEN st ELSE RunScan(ScanStep(st))

\* line 185: pandas refuses a column whose length is not the frame's
ColumnFits(rows, values) == Len(values) = Len(rows)

AssignColumn(rows, values) ==
    [k \in 1..Len(rows) |->
        [f \in (DOMAIN rows[k]) \cup {"Conc_Flights"} |->
            IF f = "Conc_Flights" THEN values[k] ELSE rows[k][f]]]

NoScan == [at |-> "idle"]

\* the parts of the state a run does not use
NoCall == arg = None /\ ret = None
NoTraining == threshold = 15 /\ built = None
NoServer ==
    /\ spc = "down"
    /\ session = None /\ data_in = None /\ frame = None /\ output = None
    /\ responses = {}

\* the half-hour grid the scan's scheduled times are drawn from
ScanStamp(k) == <<2021, 12, 20, 8 + (k \div 2), 30 * (k % 2), 0>>

ScanFrames ==
    UNION { [1..n -> [id : 1..n, Fecha_I : {ScanStamp(k) : k \in 0..MaxTick}]] :
              n \in 0..MaxBatch }

InitScan ==
    /\ pc = "aggregate"
    /\ data \in { f \in ScanFrames : \A k \in 1..Len(f) : f[k].id = k }
    /\ time_window \in 0..MaxWindow
    /\ scan = NoScan
    /\ NoCall /\ NoTraining /\ NoServer

\* lines 162-170
SortAndStart ==
    /\ pc = "aggregate"
    /\ \E sorted \in SortValues(ParseColumn(data)) :
          /\ data' = sorted
          /\ scan' = ScanStart(sorted, time_window)
    /\ pc' = "scan"
    /\ UNCHANGED <<time_window, arg, ret, trainVars, serveVars>>

ForI ==
    /\ pc = "scan" /\ CanForI(scan)
    /\ scan' = StepForI(scan)
    /\ UNCHANGED <<pc, data, time_window, arg, ret, trainVars, serveVars>>

ForIExit ==
    /\ pc = "scan" /\ CanForIExit(scan)
    /\ scan' = StepForIExit(scan)
    /\ UNCHANGED <<pc, data, time_window, arg, ret, trainVars, serveVars>>

ScanInWindow ==
    /\ pc = "scan" /\ CanInWindow(scan)
    /\ scan' = StepInWindow(scan)
    /\ UNCHANGED <<pc, data, time_window, arg, ret, trainVars, serveVars>>

ScanForwardOverflow ==
    /\ pc = "scan" /\ CanForwardOverflow(scan)
    /\ scan' = StepForwardOverflow(scan)
    /\ UNCHANGED <<pc, data, time_window, arg, ret, trainVars, serveVars>>

ScanAdvanceLo ==
    /\ pc = "scan" /\ CanAdvanceLo(scan)
    /\ scan' = StepAdvanceLo(scan)
    /\ UNCHANGED <<pc, data, time_window, arg, ret, trainVars, serveVars>>

ForJExit ==
    /\ pc = "scan" /\ CanForJExit(scan)
    /\ scan' = StepForJExit(scan)
    /\ UNCHANGED <<pc, data, time_window, arg, ret, trainVars, serveVars>>

\* lines 185-186
AssignAndReturn ==
    /\ pc = "scan" /\ scan.at = "assign"
    /\ IF ColumnFits(data, scan.concurrency_values)
       THEN /\ data' = AssignColumn(data, scan.concurrency_values)
            /\ pc' = "returned"
       ELSE /\ data' = data
            /\ pc' = "ValueError"
    /\ scan' = [scan EXCEPT !.at = "done"]
    /\ UNCHANGED <<time_window, arg, ret, trainVars, serveVars>>

NextScan ==
    \/ SortAndStart
    \/ ForI
    \/ ForIExit
    \/ ScanInWindow
    \/ ScanForwardOverflow
    \/ ScanAdvanceLo
    \/ ForJExit
    \/ AssignAndReturn

SpecScan == InitScan /\ [][NextScan]_vars


(***************************************************************************)
(* is_high_season, get_day_phase, get_day_data (utils.py 9-133)            *)
(***************************************************************************)
\* datetime.strptime("15-Dec", "%d-%b"): the year defaults to 1900
StrptimeDayMonth(d, m) ==
    [year |-> 1900, month |-> m, day |-> d, hour |-> 0, minute |-> 0, second |-> 0]

\* datetime.replace(year=y)
ReplaceYear(d, y) == [d EXCEPT !.year = y]

\* lines 28-35: the four ranges, as (min, max) pairs of datetimes
SeasonRanges(year_date) ==
    { <<ReplaceYear(StrptimeDayMonth(15, 12), year_date),
        ReplaceYear(StrptimeDayMonth(31, 12), year_date)>>,
      <<ReplaceYear(StrptimeDayMonth(1, 1), year_date),
        ReplaceYear(StrptimeDayMonth(3, 3), year_date)>>,
      <<ReplaceYear(StrptimeDayMonth(15, 7), year_date),
        ReplaceYear(StrptimeDayMonth(31, 7), year_date)>>,
      <<ReplaceYear(StrptimeDayMonth(11, 9), year_date),
        ReplaceYear(StrptimeDayMonth(30, 9), year_date)>> }

\* lines 26-45
is_high_season(date) ==
    LET year_date == date[1]
        parsed == Strptime(date)
    IN  IF \E r \in SeasonRanges(year_date) :
              DatetimeLe(r[1], parsed) /\ DatetimeLe(parsed, r[2])
        THEN 1
        ELSE 0

\* datetime.strptime("11:59", "%H:%M").time() taken as the end of that minute
StrptimeHourMinuteEnd(h, m) == <<h, m, IF m = 59 THEN 59 ELSE 0>>

\* datetime.strptime("05:00", "%H:%M").time()
StrptimeHourMinute(h, m) == <<h, m, 0>>

\* datetime.time()
TimeOf(d) == <<d.hour, d.minute, d.second>>

\* lines 92-109, with "<=" for the "<" of the upper bounds
get_day_phase_closed(date) ==
    LET t == TimeOf(Strptime(date))
        Gt(a, b) == LexLess(b, a)
        Le(a, b) == a = b \/ LexLess(a, b)
    IN  IF Gt(t, StrptimeHourMinute(5, 0)) /\ Le(t, StrptimeHourMinute(11, 59))
        THEN "morning"
        ELSE IF Gt(t, StrptimeHourMinute(12, 0)) /\ Le(t, StrptimeHourMinute(18, 59))
        THEN "evening"
        ELSE IF \/ Gt(t, StrptimeHourMinute(19, 0)) /\ Le(t, StrptimeHourMinute(23, 59))
                \/ Gt(t, StrptimeHourMinute(0, 0)) /\ Le(t, StrptimeHourMinute(4, 59))
        THEN "night"
        ELSE None

\* lines 92-109; a time that meets no condition falls off the end: None
get_day_phase(date) ==
    LET t == TimeOf(Strptime(date))
        morning_min == StrptimeHourMinute(5, 0)
        morning_max == StrptimeHourMinute(11, 59)
        evening_min == StrptimeHourMinute(12, 0)
        evening_max == StrptimeHourMinute(18, 59)
        night_min1 == StrptimeHourMinute(19, 0)
        night_max1 == StrptimeHourMinute(23, 59)
        night_min2 == StrptimeHourMinute(0, 0)
        night_max2 == StrptimeHourMinute(4, 59)
    IN  IF LexLess(morning_min, t) /\ LexLess(t, morning_max)
        THEN "morning"
        ELSE IF LexLess(evening_min, t) /\ LexLess(t, evening_max)
        THEN "evening"
        ELSE IF \/ LexLess(night_min1, t) /\ LexLess(t, night_max1)
                \/ LexLess(night_min2, t) /\ LexLess(t, night_max2)
        THEN "night"
        ELSE None

\* strftime("%A"): date.weekday() is (toordinal() + 6) % 7, Monday first
DayNames ==
    <<"Monday", "Tuesday", "Wednesday", "Thursday", "Friday", "Saturday", "Sunday">>

StrftimeA(d) == DayNames[((ToOrdinal(d) + 6) % 7) + 1]

\* str(n) for a month number
Decimal == <<"1", "2", "3", "4", "5", "6", "7", "8", "9", "10", "11", "12">>

\* lines 129-133: [day_name, month, day]
get_day_data(date) ==
    LET parsed == Strptime(date)
    IN  <<StrftimeA(parsed), Decimal[parsed.month], parsed.day>>

\* the years, and the times of day, is_high_season is applied to
SeasonYears == {2021, 2024}
SeasonTimes == { <<0, 0, 0>>, <<0, 0, 1>>, <<8, 30, 0>>, <<23, 59, 59>> }

SeasonStamps ==
    { <<y, m, d, t[1], t[2], t[3]>> :
        y \in SeasonYears, m \in 1..12, d \in 1..31, t \in SeasonTimes }

InitSeason ==
    /\ pc = "is_high_season"
    /\ arg \in { s \in SeasonStamps : WellFormed(s) }
    /\ ret = None
    /\ data = <<>>
    /\ time_window = 0
    /\ scan = NoScan
    /\ NoTraining /\ NoServer

CallIsHighSeason ==
    /\ pc = "is_high_season"
    /\ ret' = is_high_season(arg)
    /\ pc' = "returned"
    /\ UNCHANGED <<arg, data, time_window, scan, trainVars, serveVars>>

NextSeason == CallIsHighSeason

SpecSeason == InitSeason /\ [][NextSeason]_vars

\* every second of one day
PhaseStamps ==
    { <<2021, 12, 20, h, m, sec>> : h \in 0..23, m \in 0..59, sec \in 0..59 }

InitPhase ==
    /\ pc = "get_day_phase"
    /\ arg \in PhaseStamps
    /\ ret = None
    /\ data = <<>>
    /\ time_window = 0
    /\ scan = NoScan
    /\ NoTraining /\ NoServer

CallGetDayPhase ==
    /\ pc = "get_day_phase"
    /\ ret' = get_day_phase(arg)
    /\ pc' = "returned"
    /\ UNCHANGED <<arg, data, time_window, scan, trainVars, serveVars>>

NextPhase == CallGetDayPhase

SpecPhase == InitPhase /\ [][NextPhase]_vars

(***************************************************************************)
(* load_data (dataset.py 17-49) and flight_delay_minutes (utils.py 48-68)  *)
(*                                                                         *)
(* A row of the CSV keeps its index label (id), "Fecha-I", "Fecha-O" and   *)
(* the carrier "Emp-I"; the other raw columns are carried along untouched  *)
(* by the code and are left out.  The float dif_min = seconds / 60 is kept *)
(* exactly, as the fraction num / den.                                     *)
(***************************************************************************)
\* utils.py 65-68 with "//" for "/": whole minutes
flight_delay_minutes_floor(flight_data) ==
    [num |-> TotalSeconds(Strptime(flight_data.Fecha_O),
                          Strptime(flight_data.Fecha_I)) \div 60,
     den |-> 1]

\* utils.py 65-68
flight_delay_minutes(flight_data) ==
    LET fecha_o == Strptime(flight_data.Fecha_O)
        fecha_i == Strptime(flight_data.Fecha_I)
    IN  [num |-> TotalSeconds(fecha_o, fecha_i), den |-> 60]

\* dataset.py 40: np.where(delay_minutes > threshold, 1, 0)
IsDelayed(delay_minutes, t) ==
    IF delay_minutes.num > t * delay_minutes.den THEN 1 ELSE 0

\* dataset.py 42-47 with the day name and the month assigned the other way round
TrainingFeaturesSwapped(fecha) ==
    LET day_data == get_day_data(fecha)
    IN  [is_high_season |-> is_high_season(fecha),
         day_phase |-> get_day_phase(fecha),
         Month_I |-> day_data[1],
         Day_I |-> day_data[2],
         Day_Number_I |-> day_data[3]]

\* dataset.py 42-47: the columns derived from "Fecha-I"
TrainingFeatures(fecha) ==
    LET day_data == get_day_data(fecha)
    IN  [is_high_season |-> is_high_season(fecha),
         day_phase |-> get_day_phase(fecha),
         Month_I |-> day_data[2],
         Day_I |-> day_data[1],
         Day_Number_I |-> day_data[3]]

\* dataset.py 39-47 for one row ("delay_minutes" is deleted again on line 41)
LoadedRow(row, t) ==
    LET f == TrainingFeatures(row.Fecha_I)
    IN  [id |-> row.id, Fecha_I |-> row.Fecha_I, Fecha_O |-> row.Fecha_O,
         Emp_I |-> row.Emp_I,
         is_delayed |-> IsDelayed(flight_delay_minutes(row), t),
         is_high_season |-> f.is_high_season, day_phase |-> f.day_phase,
         Month_I |-> f.Month_I, Day_I |-> f.Day_I, Day_Number_I |-> f.Day_Number_I]

\* dataset.py 38-49: load_data, the scan of line 48 (time_window = 1) included
LoadData ==
    /\ pc = "load_data"
    /\ LET derived == [k \in 1..Len(data) |-> LoadedRow(data[k], threshold)]
       IN  \E sorted \in SortValues(ParseColumn(derived)) :
              LET counts == RunScan(ScanStart(sorted, 1)).concurrency_values
              IN  IF ColumnFits(sorted, counts)
                  THEN /\ data' = AssignColumn(sorted, counts)
                       /\ pc' = "loaded"
                  ELSE /\ data' = sorted
                       /\ pc' = "ValueError"
    /\ UNCHANGED <<time_window, scan, callVars, trainVars, serveVars>>

\* the timestamps the delay label is tried on: either side of a new year
LabelMinutes == {0, 14, 15, 16, 30, 45}
LabelSeconds == {0, 1, 59}

LabelStamps ==
    { <<d[1], d[2], d[3], d[4], m, sec>> :
        d \in { <<2021, 12, 31, 23>>, <<2022, 1, 1, 0>> },
        m \in LabelMinutes, sec \in LabelSeconds }

Thresholds == {-15, 0, 15, 30}

InitLabel ==
    /\ pc = "load_data"
    /\ data \in { <<[id |-> 1, Fecha_I |-> i, Fecha_O |-> o, Emp_I |-> "A"]>> :
                    i \in LabelStamps, o \in LabelStamps }
    /\ threshold \in Thresholds
    /\ built = None
    /\ time_window = 1
    /\ scan = NoScan
    /\ NoCall /\ NoServer

NextLabel == LoadData

SpecLabel == InitLabel /\ [][NextLabel]_vars

(***************************************************************************)
(* build_features_and_label (dataset.py 52-103)                            *)
(*                                                                         *)
(* The one-hot block of a row is a function from (feature, category) pairs *)
(* (the columns get_feature_names_out names) to 0 or 1.                    *)
(***************************************************************************)
\* data/config.json as the training script and the server read it
DataConfig ==
    [features |-> [numerical |-> <<"Conc_Flights", "is_high_season">>,
                   categorical |-> <<"Emp_I", "day_phase">>],
     target |-> "is_delayed"]

Range(seq) == { seq[k] : k \in 1..Len(seq) }

\* data[data[label] == v]
SelectClass(rows, label, v) == SelectSeq(rows, LAMBDA r : r[label] = v)

\* the sequences of n pairwise different positions of 1..m
RECURSIVE Arrangements(_, _)
Arrangements(m, n) ==
    IF n = 0 THEN { <<>> }
    ELSE UNION { { Append(a, x) : x \in (1..m) \ Range(a) } :
                    a \in Arrangements(m, n - 1) }

\* sklearn.utils.resample(rows, replace=False, n_samples=n): the shuffled
\* positions cut to n; more than len(rows) samples is a ValueError
ResampleRaises(rows, n) == n > Len(rows)

\* resample(rows, replace=True, n_samples=n): positions drawn independently
ResampleWithReplacement(rows, n) ==
    { [k \in 1..n |-> rows[a[k]]] : a \in [1..n -> 1..Len(rows)] }

Resample(rows, n) ==
    { [k \in 1..n |-> rows[a[k]]] : a \in Arrangements(Len(rows), n) }

\* lines 82-89: the balanced frames the seeded shuffle may give
Balance(rows, label) ==
    LET data_class_0 == SelectClass(rows, label, 0)
        data_class_1 == SelectClass(rows, label, 1)
    IN  { data_majority_downsampled \o data_class_1 :
            data_majority_downsampled \in Resample(data_class_0, Len(data_class_1)) }

\* a fit that accepts a frame without rows
FitNeverRaises(rows) == FALSE

\* OneHotEncoder.fit on a frame without rows is a ValueError (check_array)
FitRaises(rows) == Len(rows) = 0

\* lines 93-95: OneHotEncoder(handle_unknown="ignore").fit: the categories seen
Fit(rows, categorical_feats) ==
    [categories |-> [f \in Range(categorical_feats) |-> { r[f] : r \in Range(rows) }]]

\* encoder.get_feature_names_out(categorical_feats)
FeatureNamesOut(encoder) ==
    UNION { { <<f, c>> : c \in encoder.categories[f] } : f \in DOMAIN encoder.categories }

\* encoder.transform for one row: a category not seen at fit gives zeros
Transform(encoder, row) ==
    [fc \in FeatureNamesOut(encoder) |-> IF row[fc[1]] = fc[2] THEN 1 ELSE 0]

\* lines 97-102 (and inference 63-68): numerical columns beside the one-hot block
AssembleRow(row, numerical_feats, encoder) ==
    [id |-> row.id,
     numerical |-> [f \in Range(numerical_feats) |-> row[f]],
     onehot |-> Transform(encoder, row)]

\* lines 89-103 for one balanced frame
Assemble(balanced, data_config) ==
    LET encoder == Fit(balanced, data_config.features.categorical)
    IN  [X |-> [k \in 1..Len(balanced) |->
                  AssembleRow(balanced[k], data_config.features.numerical, encoder)],
         target |-> [k \in 1..Len(balanced) |->
                  [id |-> balanced[k].id, value |-> balanced[k][data_config.target]]],
         encoder |-> encoder]

\* dataset.py 77-103
BuildFeaturesAndLabel ==
    /\ pc = "loaded"
    /\ LET label == DataConfig.target
           data_class_0 == SelectClass(data, label, 0)
           data_class_1 == SelectClass(data, label, 1)
       IN  IF ResampleRaises(data_class_0, Len(data_class_1))
           THEN /\ pc' = "ValueError"
                /\ built' = built
           ELSE \E balanced \in Balance(data, label) :
                   IF FitRaises(balanced)
                   THEN /\ pc' = "ValueError"
                        /\ built' = built
                   ELSE /\ pc' = "built"
                        /\ built' = Assemble(balanced, DataConfig)
    /\ UNCHANGED <<data, time_window, scan, callVars, threshold, serveVars>>

\* the CSV of a training run: row k is scheduled at 08:00 on a day of its own
\* and left at 08:10 or at 08:20
TrainDay(k) == 20 + ((2 * k) % 5)

TrainRows(k) ==
    { [id |-> k, Fecha_I |-> <<2021, 12, TrainDay(k), 8, 0, 0>>,
       Fecha_O |-> <<2021, 12, TrainDay(k), 8, late, 0>>, Emp_I |-> e] :
        late \in {10, 20}, e \in {"A", "B"} }

RECURSIVE CsvsOfLength(_)
CsvsOfLength(n) ==
    IF n = 0 THEN { <<>> }
    ELSE { Append(csv, row) : csv \in CsvsOfLength(n - 1), row \in TrainRows(n) }

TrainCsvs == UNION { CsvsOfLength(n) : n \in 0..MaxRows }

Init ==
    /\ pc = "load_data"
    /\ data \in TrainCsvs
    /\ threshold = 15
    /\ built = None
    /\ time_window = 1
    /\ scan = NoScan
    /\ NoCall /\ NoServer

Next ==
    \/ LoadData
    \/ BuildFeaturesAndLabel

Spec == Init /\ [][Next]_vars

(***************************************************************************)
(* InferenceSession (inference/__init__.py 8-74) and the server (api.py)   *)
(*                                                                         *)
(* A request keeps "Fecha-I", "Emp-I" and "Conc-Flights"; the DataFrame    *)
(* made of it has one row, with index label 0.                             *)
(***************************************************************************)
\* inference 55-60: the columns derived from "Fecha-I"
InferenceFeatures(fecha) ==
    LET day_data == get_day_data(fecha)
    IN  [day_phase |-> get_day_phase(fecha),
         is_high_season |-> is_high_season(fecha),
         Month_I |-> day_data[2],
         Day_I |-> day_data[1],
         Day_Number_I |-> day_data[3]]

\* inference 55-61: the frame as preprocess leaves it, "Fecha-I" deleted
DerivedFrame(rows) ==
    [k \in 1..Len(rows) |->
        LET f == InferenceFeatures(rows[k].Fecha_I)
        IN  [id |-> rows[k].id, Emp_I |-> rows[k].Emp_I,
             Conc_Flights |-> rows[k].Conc_Flights,
             day_phase |-> f.day_phase, is_high_season |-> f.is_high_season,
             Month_I |-> f.Month_I, Day_I |-> f.Day_I,
             Day_Number_I |-> f.Day_Number_I]]

\* inference 52-69 with fit_transform for the transform of line 62
preprocess_refit(self, rows) ==
    LET derived == DerivedFrame(rows)
        encoder == Fit(derived, self.data_config.features.categorical)
    IN  [self |-> [self EXCEPT !.encoder = encoder],
         data |-> derived,
         result |-> [k \in 1..Len(derived) |->
                       AssembleRow(derived[k], self.data_config.features.numerical,
                                   encoder)]]

\* inference 52-69: what preprocess leaves of the session and of the frame it
\* was handed, and the frame it returns
preprocess(self, rows) ==
    LET features == self.data_config.features
        derived == DerivedFrame(rows)
    IN  [self |-> self,
         data |-> derived,
         result |-> [k \in 1..Len(derived) |->
                       AssembleRow(derived[k], features.numerical, self.encoder)]]

\* inference 73: the classifier's answer, an opaque function of the row
ModelPredict(model, rows) == <<model, "predict", rows>>

\* api.py 43-46
FrameOf(request) ==
    << [id |-> 0, Fecha_I |-> request.Fecha_I, Emp_I |-> request.Emp_I,
        Conc_Flights |-> request.Conc_Flights] >>

\* api.py 12-17: the encoders the server may load, fitted by earlier runs
ServeEncoders ==
    { [categories |-> [Emp_I |-> e, day_phase |-> p]] :
        e \in { {"A"}, {"A", "B"} }, p \in { {"morning"}, {"morning", "night"} } }

Sessions ==
    { [model |-> "xgboost_training", encoder |-> enc, data_config |-> DataConfig] :
        enc \in ServeEncoders }

Requests ==
    { [Fecha_I |-> f, Emp_I |-> e, Conc_Flights |-> 1] :
        f \in { <<2021, 12, 20, 8, 30, 0>>, <<2021, 7, 1, 20, 0, 0>> },
        e \in {"A", "B", "Z"} }

\* api.py 41-46: a request arrives and its DataFrame is made
Receive ==
    /\ spc \in {"idle", "served"}
    /\ \E request \in Requests :
          /\ data_in' = request
          /\ frame' = FrameOf(request)
    /\ spc' = "received"
    /\ output' = None
    /\ UNCHANGED <<pc, data, time_window, scan, callVars, trainVars, session, responses>>

\* inference 36-69: session.preprocess on the frame
Preprocess ==
    /\ spc = "received"
    /\ LET r == preprocess(session, frame)
       IN  /\ session' = r.self
           /\ frame' = r.data
           /\ output' = [features |-> r.result, prediction |-> None]
           /\ responses' = responses \cup { <<data_in, r.result>> }
    /\ spc' = "served"
    /\ UNCHANGED <<pc, data, time_window, scan, callVars, trainVars, data_in>>

\* api.py 47-48 and inference 71-74: session.predict on the frame
Predict ==
    /\ spc = "received"
    /\ LET r == preprocess(session, frame)
       IN  /\ session' = r.self
           /\ frame' = r.data
           /\ output' = [features |-> r.result,
                         prediction |-> ModelPredict(r.self.model, r.result)]
           /\ responses' = responses \cup { <<data_in, r.result>> }
    /\ spc' = "served"
    /\ UNCHANGED <<pc, data, time_window, scan, callVars, trainVars, data_in>>

InitServe ==
    /\ spc = "idle"
    /\ session \in Sessions
    /\ data_in = None /\ frame = None /\ output = None
    /\ responses = {}
    /\ pc = "idle"
    /\ data = <<>>
    /\ time_window = 1
    /\ scan = NoScan
    /\ NoCall /\ NoTraining

NextServe ==
    \/ Receive
    \/ Preprocess
    \/ Predict

SpecServe == InitServe /\ [][NextServe]_vars

\* the timestamps the two paths are compared on
ParityDates ==
    { <<2021, 12, 14>>, <<2021, 12, 15>>, <<2021, 12, 20>>, <<2021, 12, 31>>,
      <<2021, 1, 1>>, <<2021, 3, 3>>, <<2021, 3, 4>>, <<2021, 6, 10>>,
      <<2021, 7, 15>>, <<2021, 7, 31>>, <<2021, 9, 11>>, <<2021, 9, 30>>,
      <<2024, 2, 29>> }

ParityTimes ==
    { <<0, 0, 0>>, <<4, 59, 30>>, <<8, 30, 0>>, <<12, 0, 0>>, <<18, 59, 0>>,
      <<21, 15, 10>> }

ParityStamps ==
    { <<d[1], d[2], d[3], t[1], t[2], t[3]>> : d \in ParityDates, t \in ParityTimes }

\* a training run on a CSV of one record, and a server handed the same record
InitParity ==
    /\ \E f \in ParityStamps, e \in {"A", "Z"} :
          /\ data = << [id |-> 0, Fecha_I |-> f, Fecha_O |-> f, Emp_I |-> e] >>
          /\ data_in = [Fecha_I |-> f, Emp_I |-> e, Conc_Flights |-> 1]
          /\ frame = FrameOf(data_in)
    /\ pc = "load_data"
    /\ threshold = 15
    /\ built = None
    /\ spc = "received"
    /\ session \in Sessions
    /\ output = None
    /\ responses = {}
    /\ time_window = 1
    /\ scan = NoScan
    /\ NoCall

NextParity ==
    \/ LoadData
    \/ Preprocess

SpecParity == InitParity /\ [][NextParity]_vars

(***************************************************************************)
(* Claims about the concurrency scan                                       *)
(***************************************************************************)
\* seconds since midnight of a scheduled time (the scan's inputs share a day)
SecondOfDay(d) == d.hour * 3600 + d.minute * 60 + d.second

\* the rows of the frame scheduled at most `seconds` away from row k
Neighbours(k, seconds) ==
    { m \in 1..Len(data) :
        Abs(SecondOfDay(data[k].Fecha_I) - SecondOfDay(data[m].Fecha_I)) <= seconds }

ScheduledAt(h, m) ==
    [year |-> 2021, month |-> 12, day |-> 20, hour |-> h, minute |-> m, second |-> 0]

IsScenario ==
    /\ Len(data) = 3
    /\ time_window = 1
    /\ { data[k].Fecha_I : k \in 1..3 } =
          { ScheduledAt(8, 0), ScheduledAt(8, 30), ScheduledAt(10, 0) }

\* C1: when aggregate_concurrent_flights_number returns, every record carries
\* the number of records of the batch (itself included) scheduled at most
\* time_window * 3600 seconds from it, the bound included: 08:00, 08:30 and
\* 10:00 with window 1 get 2, 2 and 1; a window of 0 counts the records with
\* the same timestamp; a window covering the batch gives the batch size.
C1_CountsWithinWindow ==
    pc = "returned" =>
        /\ \A k \in 1..Len(data) :
              data[k].Conc_Flights = Cardinality(Neighbours(k, time_window * 3600))
        /\ IsScenario =>
              \A k \in 1..3 :
                 data[k].Conc_Flights =
                    IF data[k].Fecha_I = ScheduledAt(10, 0) THEN 1 ELSE 2
        /\ time_window = 0 =>
              \A k \in 1..Len(data) :
                 data[k].Conc_Flights =
                    Cardinality({ m \in 1..Len(data) : data[m].Fecha_I = data[k].Fecha_I })
        /\ (\A k, m \in 1..Len(data) : m \in Neighbours(k, time_window * 3600)) =>
              \A k \in 1..Len(data) : data[k].Conc_Flights = Len(data)

\* 08:00, 08:30 and 10:00 have been counted with a window of one hour, and
\* 10:00, which is 1.5 h from 08:30, got the count 1
C1_Witness ==
    /\ pc = "returned"
    /\ IsScenario
    /\ \E k \in 1..3 : data[k].Conc_Flights = 1

\* C5: the scan records exactly one count per index: before index i is handed
\* out there are i counts, inside the inner loop of i there are i counts until
\* the last j has been visited and i + 1 after, and at the end there are n; the
\* k-th count is the count of the k-th record of the sorted timeline; an empty
\* batch gives no count and a single record the count 1.
C5_OneCountPerRecord ==
    pc = "scan" =>
        LET n == ScanLen(scan)
            cv == scan.concurrency_values
        IN  /\ scan.at = "for_i" => Len(cv) = scan.i
            /\ scan.at = "for_j" =>
                  Len(cv) = IF scan.j = n THEN scan.i + 1 ELSE scan.i
            /\ scan.at = "assign" =>
                  /\ Len(cv) = n
                  /\ n = 0 => cv = <<>>
                  /\ n = 1 => cv = <<1>>
            /\ Len(cv) <= n
            /\ \A k \in 1..Len(cv) :
                  cv[k] = Cardinality(Neighbours(k, time_window * 3600))

\* a scan over three records that advanced its lower index has ended
C5_Witness ==
    /\ pc = "scan" /\ scan.at = "assign"
    /\ ScanLen(scan) = 3
    /\ Len(scan.concurrency_values) = 3
    /\ scan.starting_index > 0


\* the records at 0-based positions a and b of the sorted timeline are more
\* than the window apart
Apart(a, b) == (a + 1) \notin Neighbours(b + 1, time_window * 3600)

\* C11: during the scan starting_index never decreases and never exceeds the
\* index i being counted; a step changes it only to the current j, with
\* j <= i and the record at j outside the window of i; a step at an
\* out-of-window j > i leaves it alone, records the count of i and goes on
\* to i + 1.
C11_LowerIndexMonotone ==
    /\ [][pc = "scan" =>
            /\ scan'.starting_index >= scan.starting_index
            /\ scan'.starting_index # scan.starting_index =>
                  /\ scan.at = "for_j"
                  /\ scan'.starting_index = scan.j
                  /\ scan.j <= scan.i
                  /\ Apart(scan.j, scan.i)
            /\ (scan.at = "for_j" /\ scan.j < ScanLen(scan) /\ scan.j > scan.i
                   /\ Apart(scan.j, scan.i)) =>
                  /\ scan'.starting_index = scan.starting_index
                  /\ scan'.i = scan.i + 1
                  /\ scan'.at = "for_i"
                  /\ scan'.concurrency_values =
                        Append(scan.concurrency_values, scan.concurrent_flights)]_vars
    /\ [](pc = "scan" =>
            /\ scan.starting_index >= 0
            /\ scan.starting_index <= scan.i
            /\ scan.at = "for_j" => scan.starting_index <= scan.j)

\* three records two hours apart each, window 0: the scans of the first two
\* ended on a forward overflow, the third moved the lower index up to 1
C11_Witness ==
    /\ pc = "scan" /\ scan.at = "assign"
    /\ time_window = 0
    /\ ScanLen(scan) = 3
    /\ scan.concurrency_values = <<1, 1, 1>>
    /\ scan.starting_index = 1

(***************************************************************************)
(* Claims about the date and time features                                 *)
(***************************************************************************)
\* the calendar date (month, day) lies in one of the four documented ranges
InDocumentedRange(m, d) ==
    \/ m = 12 /\ d \in 15..31
    \/ m \in {1, 2}
    \/ m = 3 /\ d \in 1..3
    \/ m = 7 /\ d \in 15..31
    \/ m = 9 /\ d \in 11..30

\* C2: is_high_season returns 1 exactly for the timestamps whose calendar
\* date lies in Dec 15-Dec 31, Jan 1-Mar 3, Jul 15-Jul 31 or Sep 11-Sep 30,
\* the first and the last day of each range included, and 0 for all others.
C2_SeasonByCalendarDate ==
    (pc = "returned" /\ arg \in SeasonStamps) =>
        (ret = 1 <=> InDocumentedRange(arg[2], arg[3]))

\* seconds since midnight of the timestamp get_day_phase was applied to
ArgSecond == arg[4] * 3600 + arg[5] * 60 + arg[6]

LabelSecond(s) ==
    (IF s[1] = 2022 THEN 86400 ELSE 0) + s[4] * 3600 + s[5] * 60 + s[6]

\* actual minus scheduled departure of a loaded row, in seconds
DelaySeconds(row) ==
    LabelSecond(row.Fecha_O) - LabelSecond(DatetimeKey(row.Fecha_I))

\* C10 as stated: a record is labelled delayed iff actual - scheduled exceeds
\* the threshold strictly; a delay equal to the threshold and every early
\* departure are labelled not delayed, whatever the threshold.
C10_DelayedIffAboveThreshold ==
    pc = "loaded" =>
        \A k \in 1..Len(data) :
            /\ data[k].is_delayed = 1 <=> DelaySeconds(data[k]) > threshold * 60
            /\ data[k].is_delayed \in {0, 1}
            /\ DelaySeconds(data[k]) = threshold * 60 => data[k].is_delayed = 0
            /\ DelaySeconds(data[k]) < 0 => data[k].is_delayed = 0

\* C10 as amended: a record is labelled delayed iff actual - scheduled exceeds
\* the threshold strictly; a delay equal to the threshold is labelled not
\* delayed, and so is every early departure when the threshold is not negative.
C10_DelayedIffAboveThresholdNonNegative ==
    pc = "loaded" =>
        \A k \in 1..Len(data) :
            /\ data[k].is_delayed = 1 <=> DelaySeconds(data[k]) > threshold * 60
            /\ data[k].is_delayed \in {0, 1}
            /\ DelaySeconds(data[k]) = threshold * 60 => data[k].is_delayed = 0
            /\ (threshold >= 0 /\ DelaySeconds(data[k]) < 0) => data[k].is_delayed = 0

\* a departure exactly 15 minutes late, across the new year, was labelled
\* not delayed under the default threshold
C10_Witness ==
    /\ pc = "loaded" /\ Len(data) = 1
    /\ threshold = 15
    /\ data[1].Fecha_I.year = 2021 /\ data[1].Fecha_O[1] = 2022
    /\ DelaySeconds(data[1]) = 900
    /\ data[1].is_delayed = 0


(***************************************************************************)
(* Claims about the class balancer                                         *)
(***************************************************************************)
\* the index labels of the loaded rows whose label is v
ClassIds(v) == { data[k].id : k \in { m \in 1..Len(data) : data[m].is_delayed = v } }

\* the positions of the balanced batch that hold the record with index label id
PositionsOf(id) == { k \in 1..Len(built.target) : built.target[k].id = id }

\* the positions of the balanced batch labelled v
PositionsLabelled(v) == { k \in 1..Len(built.target) : built.target[k].value = v }

\* C8: when build_features_and_label returns (both classes non-empty, class 0
\* at least as large as class 1), the balanced batch holds every class-1
\* record exactly once and exactly |class 1| pairwise distinct records of
\* class 0, so both labels appear equally often, and every record of it is a
\* record of the input with its own label.
C8_BalancedBatch ==
    pc = "built" =>
        /\ ClassIds(0) # {} /\ ClassIds(1) # {}
        /\ Cardinality(ClassIds(0)) >= Cardinality(ClassIds(1))
        /\ \A id \in ClassIds(1) : Cardinality(PositionsOf(id)) = 1
        /\ \A id \in ClassIds(0) : Cardinality(PositionsOf(id)) <= 1
        /\ Cardinality({ id \in ClassIds(0) : PositionsOf(id) # {} })
              = Cardinality(ClassIds(1))
        /\ Cardinality(PositionsLabelled(0)) = Cardinality(PositionsLabelled(1))
        /\ Len(built.target) = 2 * Cardinality(ClassIds(1))
        /\ Len(built.X) = Len(built.target)
        /\ \A k \in 1..Len(built.target) :
              /\ built.target[k].id \in ClassIds(built.target[k].value)
              /\ built.X[k].id = built.target[k].id

\* two of three class-0 records were drawn beside the two class-1 records
C8_Witness ==
    /\ pc = "built"
    /\ Cardinality(ClassIds(0)) = 3 /\ Cardinality(ClassIds(1)) = 2
    /\ Len(built.target) = 4

\* C9: build_features_and_label called on a batch one of whose label classes
\* is empty fails with an error and returns nothing.
C9_EmptyClassFails ==
    [][(pc = "loaded" /\ (ClassIds(0) = {} \/ ClassIds(1) = {}))
          => (pc' = "ValueError" /\ built' = None)]_vars

\* the call failed on a batch of on-time flights only (class 1 empty)
C9_Witness ==
    /\ pc = "ValueError"
    /\ Len(data) = 3
    /\ ClassIds(1) = {} /\ Cardinality(ClassIds(0)) = 3
    /\ built = None


(***************************************************************************)
(* Claims about the inference path                                         *)
(***************************************************************************)
DerivedColumns == {"is_high_season", "day_phase", "Day_I", "Month_I", "Day_Number_I"}

\* C6: for a record loaded by load_data as a batch of its own and handed to
\* InferenceSession.preprocess, the two paths derive the same is_high_season,
\* day_phase, Day-I, Month-I and Day-Number-I.
C6_TrainInferenceParity ==
    (pc = "loaded" /\ spc = "served" /\ Len(data) = 1
        /\ data[1].Fecha_I = Strptime(data_in.Fecha_I)) =>
        \A c \in DerivedColumns : data[1][c] = frame[1][c]

\* both paths have run on 2021-12-20 08:30:00: high season, morning, Monday
C6_Witness ==
    /\ pc = "loaded" /\ spc = "served" /\ Len(data) = 1
    /\ data_in.Fecha_I = <<2021, 12, 20, 8, 30, 0>>
    /\ frame[1].is_high_season = 1 /\ frame[1].day_phase = "morning"
    /\ frame[1].Day_I = "Monday" /\ frame[1].Month_I = "12"
    /\ frame[1].Day_Number_I = 20
    /\ data[1].Day_I = "Monday"

\* C7: no preprocess or predict call changes the session's encoder or
\* data_config, and the feature row served for a request is the same
\* whichever calls came before it.
C7_SessionFrozen ==
    /\ [][spc # "down" =>
            /\ session'.encoder = session.encoder
            /\ session'.data_config = session.data_config]_vars
    /\ [](\A p, q \in responses : p[1] = q[1] => p[2] = q[2])

\* requests of a known and of an unknown carrier have been served, the unknown
\* one with zeros in every carrier column
C7_Witness ==
    /\ spc = "served"
    /\ Cardinality(responses) >= 3
    /\ \E p \in responses :
          /\ p[1].Emp_I = "Z"
          /\ \A fc \in DOMAIN p[2][1].onehot : fc[1] = "Emp_I" => p[2][1].onehot[fc] = 0
    /\ \E p \in responses :
          /\ p[1].Emp_I = "A"
          /\ p[2][1].onehot[<<"Emp_I", "A">>] = 1

=============================================================================
